---- MODULE Spec2Model ----
(***************************************************************************)
(* Model of main.py: the Lilazul tool server.  The state is the two store  *)
(* tables (crochet, mood), the module-level configuration read from the   *)
(* environment (the upstream base URL and the store handle sb), the wall   *)
(* clock, and a record of the last tool or REST invocation (its arguments, *)
(* the requests it issued, and whether it returned or raised).             *)
(***************************************************************************)
EXTENDS Integers, Sequences, FiniteSets, Bags, TLC

-----------------------------------------------------------------------------
(* Data *)

PyNone == "<None>"

\* A mapping that carries the key ok with a boolean value.
HasOk(m) == "ok" \in DOMAIN m /\ m.ok \in BOOLEAN

\* A row of the crochet table.
WorkItem(id, title, status, notes) ==
    [id |-> id, title |-> title, status |-> status, notes |-> notes]

\* A row of the mood table.
MoodRecord(owner, mood, updated_at) ==
    [owner |-> owner, mood |-> mood, updated_at |-> updated_at]

VARIABLES
    LILAZUL_API_BASE,   \* the upstream base URL, read from the environment at load
    sb,             \* the module-level store handle: PyNone or "client"
    crochet,        \* the crochet table: a sequence of rows, in store order
    mood_table,     \* the mood table: a set of rows, keyed by owner
    now,            \* the wall clock: the instant datetime.now reads
    in_flight,      \* the _set_mood calls waiting on the store: a bag of payloads
    before,         \* the crochet table just before the step that ended the last invocation
    last            \* the last invocation: what was called and how it ended

vars == <<LILAZUL_API_BASE, sb, crochet, mood_table, now, in_flight, before, last>>

-----------------------------------------------------------------------------
(* Python helpers *)

\* d.get(k, default)
DictGet(d, k, default) == IF k \in DOMAIN d THEN d[k] ELSE default

\* Python values of a JSON payload, tagged with their type.
PyStr(s) == [t |-> "str", v |-> s]
PyInt(n) == [t |-> "int", v |-> n]
PyNull == [t |-> "none", v |-> PyNone]

\* bool(v) is False
Falsy(v) ==
    \/ v.t = "none"
    \/ v.t = "str" /\ v.v = ""
    \/ v.t = "int" /\ v.v = 0

\* str(v)
str(v) ==
    IF v.t = "str" THEN v.v
    ELSE IF v.t = "int" THEN ToString(v.v)
    ELSE "None"

\* bool(s) is False, for s a str or None
FalsyStr(s) == s = PyNone \/ s = ""

NoValue == << >>

-----------------------------------------------------------------------------
(* The record of an invocation *)

NoRequest == << >>
NoReply == << >>

Invocation(op, args, outcome, exc, http_status, result, store_calls, http_calls, request, reply) ==
    [op |-> op, args |-> args, outcome |-> outcome, exc |-> exc,
     http_status |-> http_status, result |-> result,
     store_calls |-> store_calls, http_calls |-> http_calls,
     request |-> request, reply |-> reply]

\* The tool returned result.
Returned(op, args, result, store_calls, http_calls, request, reply) ==
    Invocation(op, args, "return", "", 0, result,
               store_calls, http_calls, request, reply)

\* The tool raised exc; http_status is the status an HTTPStatusError carries.
Raised(op, args, exc, http_status, store_calls, http_calls, request, reply) ==
    Invocation(op, args, "raise", exc, http_status, NoValue,
               store_calls, http_calls, request, reply)

-----------------------------------------------------------------------------
(* CONFIG *)

\* os.getenv(key, default).  environ gives every variable its value, PyNone
\* when the variable is not set.
os_getenv(environ, key, default) ==
    IF environ[key] = PyNone THEN default ELSE environ[key]

\* LILAZUL_API_BASE = os.getenv("LILAZUL_API_BASE", "https://lilazul-api.onrender.com")
load_LILAZUL_API_BASE(environ) ==
    os_getenv(environ, "LILAZUL_API_BASE", "https://lilazul-api.onrender.com")

\* An instant of the wall clock: POSIX seconds and the microseconds within the
\* second.  The calendar below is exact for instants from 1996 (the current
\* European summer-time rule) to 2037 (32-bit seconds).
Instant(seconds, micros) == [seconds |-> seconds, micros |-> micros]

\* t1 is strictly later than t2.
Later(t1, t2) ==
    \/ t1.seconds > t2.seconds
    \/ t1.seconds = t2.seconds /\ t1.micros > t2.micros

Pad2(n) == IF n < 10 THEN "0" \o ToString(n) ELSE ToString(n)

Pad6(n) ==
    IF n < 10 THEN "00000" \o ToString(n)
    ELSE IF n < 100 THEN "0000" \o ToString(n)
    ELSE IF n < 1000 THEN "000" \o ToString(n)
    ELSE IF n < 10000 THEN "00" \o ToString(n)
    ELSE IF n < 100000 THEN "0" \o ToString(n)
    ELSE ToString(n)

Weekdays ==
    <<"Monday", "Tuesday", "Wednesday", "Thursday", "Friday", "Saturday", "Sunday">>

\* The calendar arithmetic of the proleptic Gregorian calendar, in eras of
\* 400 years that begin on 1 March; mp counts months from March, yoe, doe
\* and doy are the year and day of the era and the day of the year.
DayOfEra(yoe, doy) == yoe * 365 + (yoe \div 4) - (yoe \div 100) + doy

DaysFromShifted(yy, mp, d) ==
    (yy \div 400) * 146097
        + DayOfEra(yy % 400, ((153 * mp + 2) \div 5) + d - 1) - 719468

\* The number of days from 1970-01-01 to the Gregorian date y-m-d.
DaysFromCivil(y, m, d) ==
    DaysFromShifted(IF m <= 2 THEN y - 1 ELSE y, IF m > 2 THEN m - 3 ELSE m + 9, d)

CivilFromMp(y, doy, mp) ==
    <<IF mp < 10 THEN y ELSE y + 1,
      IF mp < 10 THEN mp + 3 ELSE mp - 9,
      doy - ((153 * mp + 2) \div 5) + 1>>

CivilFromDoy(y, doy) == CivilFromMp(y, doy, (5 * doy + 2) \div 153)

CivilFromYoe(era, doe, yoe) ==
    CivilFromDoy(yoe + era * 400,
                 doe - (365 * yoe + (yoe \div 4) - (yoe \div 100)))

CivilFromDoe(era, doe) ==
    CivilFromYoe(era, doe,
        (doe - (doe \div 1460) + (doe \div 36524) - (doe \div 146096)) \div 365)

\* The Gregorian date <<year, month, day>> that lies days after 1970-01-01.
CivilFromDays(days) ==
    CivilFromDoe((days + 719468) \div 146097, (days + 719468) % 146097)

\* The day of the month of the last Sunday of a 31-day month m of year y.
LastSunday(y, m) == 31 - ((DaysFromCivil(y, m, 31) + 4) % 7)

\* Summer time of year y runs from 01:00 UTC on the last Sunday of March to
\* 01:00 UTC on the last Sunday of October.
IsSummerTime(seconds, y) ==
    /\ DaysFromCivil(y, 3, LastSunday(y, 3)) * 86400 + 3600 <= seconds
    /\ seconds < DaysFromCivil(y, 10, LastSunday(y, 10)) * 86400 + 3600

\* TZ = ZoneInfo("Europe/Amsterdam"): the offset from UTC, in seconds.
TZ_utcoffset(seconds) ==
    IF IsSummerTime(seconds, CivilFromDays(seconds \div 86400)[1])
    THEN 7200 ELSE 3600

\* An aware local date and time: the date ymd, the second of the day sod, the
\* microseconds, the local days since 1970-01-01 and the offset from UTC.
datetime(ymd, sod, us, ordinal, offset) ==
    [year |-> ymd[1], month |-> ymd[2], day |-> ymd[3],
     hour |-> sod \div 3600, minute |-> (sod % 3600) \div 60,
     second |-> sod % 60, microsecond |-> us,
     toordinal |-> ordinal, utcoffset |-> offset]

\* The local date and time at local seconds since 1970-01-01T00:00 local.
localtime(local, us, offset) ==
    datetime(CivilFromDays(local \div 86400), local % 86400, us,
             local \div 86400, offset)

\* datetime.now(TZ) read at the instant clock.
datetime_now(clock) ==
    localtime(clock.seconds + TZ_utcoffset(clock.seconds), clock.micros,
              TZ_utcoffset(clock.seconds))

strftime_HM(dt) == Pad2(dt.hour) \o ":" \o Pad2(dt.minute)

strftime_Ymd(dt) ==
    ToString(dt.year) \o "-" \o Pad2(dt.month) \o "-" \o Pad2(dt.day)

\* 1970-01-01 was a Thursday.
strftime_A(dt) == Weekdays[1 + ((dt.toordinal + 3) % 7)]

\* datetime.isoformat(): the seconds always, the microseconds when not zero,
\* then the offset from UTC.
isoformat(dt) ==
    strftime_Ymd(dt) \o "T" \o strftime_HM(dt) \o ":" \o Pad2(dt.second)
        \o (IF dt.microsecond = 0 THEN "" ELSE "." \o Pad6(dt.microsecond))
        \o "+" \o Pad2(dt.utcoffset \div 3600) \o ":"
        \o Pad2((dt.utcoffset % 3600) \div 60)

now_iso(clock) == isoformat(datetime_now(clock))

get_time_context(clock) ==
    LET dt == datetime_now(clock)
    IN  [current_time |-> strftime_HM(dt),
         date |-> strftime_Ymd(dt),
         weekday |-> strftime_A(dt),
         timezone |-> "Europe/Amsterdam",
         iso |-> isoformat(dt)]

\* The emoji U+1F49C, which the module's strings cannot carry; it is written
\* by its code point wherever the source has it.
PurpleHeart == "U+1F49C"

-----------------------------------------------------------------------------
(* SUPABASE *)

\* sb = create_client(url, key) when both are set, else None
create_sb(supabase_url, service_key, anon_key) ==
    LET key == IF ~FalsyStr(service_key) THEN service_key ELSE anon_key
    IN  IF ~FalsyStr(supabase_url) /\ ~FalsyStr(key) THEN "client" ELSE PyNone

_db_unchecked(handle) == [raised |-> FALSE, client |-> handle]

_db(handle) ==
    IF handle = PyNone
    THEN [raised |-> TRUE, client |-> PyNone]
    ELSE [raised |-> FALSE, client |-> handle]

\* The outcome of a store-backed function: it returned value, or raised the
\* exception named error; table is the table afterwards and calls the store
\* round trips issued.
StoreOutcome(raised, error, value, table, calls) ==
    [raised |-> raised, error |-> error, value |-> value, table |-> table,
     calls |-> calls]
StoreReturn(value, table) == StoreOutcome(FALSE, "", value, table, 1)
StoreRaise(error, table, calls) == StoreOutcome(TRUE, error, NoValue, table, calls)

\* What the store does with one query: it runs it, or the query fails.
StoreIO == {"ok", "error"}

-----------------------------------------------------------------------------
(* CROCHET TABLE *)

HasTitle(tbl, title) == \E i \in DOMAIN tbl : tbl[i].title = title

\* The id the store gives a row it inserts.
NewId(tbl) == "id" \o ToString(Len(tbl) + 1)

\* table(TABLE).upsert({title, status}, on_conflict=title): the table
\* afterwards and the rows returned.
TableUpsertAlwaysInsert(tbl, title, status) ==
    LET row == WorkItem(NewId(tbl), title, status, PyNone)
    IN  [table |-> Append(tbl, row), data |-> <<row>>]

TableUpsert(tbl, title, status) ==
    IF HasTitle(tbl, title)
    THEN LET new == [i \in DOMAIN tbl |->
                        IF tbl[i].title = title
                        THEN [tbl[i] EXCEPT !.status = status]
                        ELSE tbl[i]]
         IN  [table |-> new, data |-> SelectSeq(new, LAMBDA r : r.title = title)]
    ELSE LET row == WorkItem(NewId(tbl), title, status, PyNone)
         IN  [table |-> Append(tbl, row), data |-> <<row>>]

\* table(TABLE).update({status}).eq(title, title): the table afterwards and
\* the rows returned.
TableUpdateAllRows(tbl, title, status) ==
    LET new == [i \in DOMAIN tbl |-> [tbl[i] EXCEPT !.status = status]]
    IN  [table |-> new, data |-> new]

TableUpdateOrInsert(tbl, title, status) == TableUpsert(tbl, title, status)

TableUpdate(tbl, title, status) ==
    LET new == [i \in DOMAIN tbl |->
                   IF tbl[i].title = title
                   THEN [tbl[i] EXCEPT !.status = status]
                   ELSE tbl[i]]
    IN  [table |-> new, data |-> SelectSeq(new, LAMBDA r : r.title = title)]

\* table(TABLE).select("id,title,status,notes")
TableSelect(tbl) ==
    [i \in DOMAIN tbl |->
        WorkItem(tbl[i].id, tbl[i].title, tbl[i].status, tbl[i].notes)]

\* (res.data or [{}])[0]
FirstOrEmpty(data) == IF data = << >> THEN NoValue ELSE data[1]

upsert_item(handle, tbl, io, title, status) ==
    IF _db(handle).raised THEN StoreRaise("RuntimeError", tbl, 0)
    ELSE IF io = "error" THEN StoreRaise("APIError", tbl, 1)
    ELSE LET res == TableUpsert(tbl, title, status)
         IN  StoreReturn(FirstOrEmpty(res.data), res.table)

set_status(handle, tbl, io, title, status) ==
    IF _db(handle).raised THEN StoreRaise("RuntimeError", tbl, 0)
    ELSE IF io = "error" THEN StoreRaise("APIError", tbl, 1)
    ELSE LET res == TableUpdate(tbl, title, status)
         IN  StoreReturn(FirstOrEmpty(res.data), res.table)

list_items(handle, tbl, io) ==
    IF _db(handle).raised THEN StoreRaise("RuntimeError", tbl, 0)
    ELSE IF io = "error" THEN StoreRaise("APIError", tbl, 1)
    ELSE StoreReturn(TableSelect(tbl), tbl)

-----------------------------------------------------------------------------
(* MOODS TABLE *)

\* table(MOOD_TABLE).select(...).eq(owner, owner)
MoodSelect(tbl, owner) == {r \in tbl : r.owner = owner}

\* What maybe_single().execute() yields when no row matches depends on the
\* client library: a response whose data is None, or None in place of the
\* response (and then r.data raises AttributeError).
MaybeSingleEmpty == {"data is None", "response is None"}

_get_mood(handle, tbl, io, lib, owner) ==
    IF _db(handle).raised THEN StoreRaise("RuntimeError", tbl, 0)
    ELSE IF io = "error" THEN StoreRaise("APIError", tbl, 1)
    ELSE LET rows == MoodSelect(tbl, owner)
         IN  IF rows = {} /\ lib = "response is None"
             THEN StoreRaise("AttributeError", tbl, 1)
             ELSE LET data == IF rows = {} THEN NoValue ELSE CHOOSE r \in rows : TRUE
                  IN  StoreReturn(
                          MoodRecord(owner,
                                     DictGet(data, "mood", ""),
                                     DictGet(data, "updated_at", PyNone)),
                          tbl)

\* table(MOOD_TABLE).upsert(payload): owner is the table's key
MoodUpsertEveryRow(tbl, payload) ==
    {[r EXCEPT !.mood = payload.mood, !.updated_at = payload.updated_at] : r \in tbl}
        \cup {payload}

MoodUpsert(tbl, payload) ==
    {r \in tbl : r.owner # payload.owner} \cup {payload}

\* _set_mood reads the clock while it builds the payload, and only then waits
\* in the store round trip: time passes and other calls run in between.
_set_mood_payload(clock, owner, mood) == MoodRecord(owner, mood, now_iso(clock))

\* The round trip upsert(payload).execute() and the return that follows it.
_set_mood_execute(tbl, io, payload) ==
    IF io = "error" THEN StoreRaise("APIError", tbl, 1)
    ELSE StoreReturn([ok |-> TRUE, owner |-> payload.owner, mood |-> payload.mood,
                      updated_at |-> payload.updated_at],
                     MoodUpsert(tbl, payload))

-----------------------------------------------------------------------------
(* Upstream HTTP *)

\* What the upstream does with one request: it answers with a status code
\* and a body that parses as JSON or does not, or the request times out.
Timeout == [kind |-> "timeout", status_code |-> 0, parses |-> FALSE]
Response(status_code, parses) ==
    [kind |-> "response", status_code |-> status_code, parses |-> parses]

Request(method, url, payload) == [method |-> method, url |-> url, json |-> payload]

\* httpx.<method>(url, timeout=10.0): the reply and the requests sent for it
httpx_request_retrying(reply) ==
    [reply |-> reply,
     requests |-> IF reply.kind = "response" /\ reply.status_code = 200 THEN 1 ELSE 2]

httpx_request(reply) == [reply |-> reply, requests |-> 1]

\* r.raise_for_status() raises
raise_for_status_server_errors_only(status_code) == status_code >= 500

raise_for_status(status_code) == ~(200 <= status_code /\ status_code <= 299)

\* r.json(): the parsed body, or JSONDecodeError
UpstreamJson == "<upstream json>"

json(reply) ==
    IF reply.parses
    THEN [raised |-> FALSE, value |-> UpstreamJson]
    ELSE [raised |-> TRUE, value |-> PyNone]

\* try: data = r.json() / except Exception: data = None
json_or_none(reply) == IF json(reply).raised THEN PyNone ELSE json(reply).value

\* A tool that sends request, checks the status and then builds its result
\* from the body: body.raised says that building it raised, body.value is
\* the result otherwise.
ProxyInvocation(op, args, request, reply, body) ==
    LET h == httpx_request(reply)
    IN  IF h.reply.kind = "timeout"
        THEN Raised(op, args, "TimeoutException", 0, 0, h.requests, request, reply)
        ELSE IF raise_for_status(h.reply.status_code)
        THEN Raised(op, args, "HTTPStatusError", h.reply.status_code,
                    0, h.requests, request, reply)
        ELSE IF body.raised
        THEN Raised(op, args, "JSONDecodeError", 0, 0, h.requests, request, reply)
        ELSE Returned(op, args, body.value, 0, h.requests, request, reply)

Proxied(op, args, request, reply, body) ==
    /\ last' = ProxyInvocation(op, args, request, reply, body)
    /\ before' = crochet
    /\ UNCHANGED <<LILAZUL_API_BASE, sb, crochet, mood_table, now, in_flight>>

-----------------------------------------------------------------------------
(* MCP TOOLS *)

\* A tool or endpoint that touches neither the store nor the upstream.
LocalInvocation(op, result) ==
    Returned(op, NoValue, result, 0, 0, NoRequest, NoReply)

\* A tool that is one store-backed call r whose value it wraps into result.
StoreInvocation(op, args, r, result) ==
    IF r.raised
    THEN Raised(op, args, r.error, 0, r.calls, 0, NoRequest, NoReply)
    ELSE Returned(op, args, result, r.calls, 0, NoRequest, NoReply)

get_time ==
    /\ last' = LocalInvocation("get_time", get_time_context(now))
    /\ before' = crochet
    /\ UNCHANGED <<LILAZUL_API_BASE, sb, crochet, mood_table, now, in_flight>>

ping ==
    /\ last' = LocalInvocation("ping", [ok |-> TRUE, pong |-> PurpleHeart])
    /\ before' = crochet
    /\ UNCHANGED <<LILAZUL_API_BASE, sb, crochet, mood_table, now, in_flight>>

crochet_add(item, status, io) ==
    LET r == upsert_item(sb, crochet, io, item, status)
        row == r.value
    IN  /\ crochet' = r.table
        /\ before' = crochet
        /\ last' = StoreInvocation("crochet_add", [status |-> status, item |-> item], r,
                       [ok |-> TRUE, id |-> DictGet(row, "id", PyNone),
                        title |-> DictGet(row, "title", item),
                        status |-> DictGet(row, "status", status)])
        /\ UNCHANGED <<LILAZUL_API_BASE, sb, mood_table, now, in_flight>>

crochet_mark_done(item, io) ==
    LET r == set_status(sb, crochet, io, item, "done")
        row == r.value
    IN  /\ crochet' = r.table
        /\ before' = crochet
        /\ last' = StoreInvocation("crochet_mark_done", [item |-> item], r,
                       [ok |-> TRUE, id |-> DictGet(row, "id", PyNone),
                        title |-> DictGet(row, "title", item),
                        status |-> DictGet(row, "status", "done")])
        /\ UNCHANGED <<LILAZUL_API_BASE, sb, mood_table, now, in_flight>>

crochet_list(io) ==
    LET r == list_items(sb, crochet, io)
    IN  /\ before' = crochet
        /\ last' = StoreInvocation("crochet_list", NoValue, r,
                       [ok |-> TRUE, items |-> r.value])
        /\ UNCHANGED <<LILAZUL_API_BASE, sb, crochet, mood_table, now, in_flight>>

crochet_toggle(id, reply) ==
    Proxied("crochet_toggle", [id |-> id],
        Request("PATCH", LILAZUL_API_BASE \o "/crochet/" \o id \o "/toggle", NoValue),
        reply,
        [raised |-> FALSE,
         value |-> [ok |-> TRUE, id |-> id, api_status |-> reply.status_code,
                    response |-> json_or_none(reply)]])

crochet_delete(item_id, reply) ==
    Proxied("crochet_delete", [item_id |-> item_id],
        Request("DELETE", LILAZUL_API_BASE \o "/crochet/" \o item_id, NoValue),
        reply,
        [raised |-> FALSE, value |-> [ok |-> TRUE, id |-> item_id]])

book_get_current(reply) ==
    Proxied("book_get_current", NoValue,
        Request("GET", LILAZUL_API_BASE \o "/current-book", NoValue),
        reply,
        [raised |-> json(reply).raised,
         value |-> [ok |-> TRUE, book |-> json(reply).value]])

book_set_current(title, author, reply) ==
    Proxied("book_set_current", [title |-> title, author |-> author],
        Request("POST", LILAZUL_API_BASE \o "/current-book",
                [title |-> title, author |-> author]),
        reply,
        [raised |-> json(reply).raised,
         value |-> [ok |-> TRUE, book |-> json(reply).value]])

book_list_finished(reply) ==
    Proxied("book_list_finished", NoValue,
        Request("GET", LILAZUL_API_BASE \o "/finished-books", NoValue),
        reply,
        [raised |-> json(reply).raised,
         value |-> [ok |-> TRUE, books |-> json(reply).value]])

\* uuid is what str(uuid4()) yields when it is called.
book_add_finished(title, date, book_id, uuid, reply) ==
    Proxied("book_add_finished", [title |-> title, date |-> date, book_id |-> book_id],
        Request("POST", LILAZUL_API_BASE \o "/finished-books",
                [id |-> IF FalsyStr(book_id) THEN uuid ELSE book_id,
                 title |-> title, date |-> date]),
        reply,
        [raised |-> json(reply).raised,
         value |-> [ok |-> TRUE, book |-> json(reply).value]])

book_delete_finished(book_id, reply) ==
    Proxied("book_delete_finished", [book_id |-> book_id],
        Request("DELETE", LILAZUL_API_BASE \o "/finished-books/" \o book_id, NoValue),
        reply,
        [raised |-> FALSE, value |-> [ok |-> TRUE, id |-> book_id]])

cake_get(month, reply) ==
    Proxied("cake_get", [month |-> month],
        Request("GET",
                IF FalsyStr(month) THEN LILAZUL_API_BASE \o "/cake"
                ELSE LILAZUL_API_BASE \o "/cake" \o "?month=" \o month,
                NoValue),
        reply,
        [raised |-> json(reply).raised,
         value |-> [ok |-> TRUE, data |-> json(reply).value]])

cake_set(month, name, note, photo_url, recipe, reply) ==
    Proxied("cake_set",
        [month |-> month, name |-> name, note |-> note,
         photo_url |-> photo_url, recipe |-> recipe],
        Request("PUT", LILAZUL_API_BASE \o "/cake",
                [month |-> month, name |-> name, note |-> note,
                 photo_url |-> photo_url, recipe |-> recipe]),
        reply,
        [raised |-> json(reply).raised,
         value |-> [ok |-> TRUE, data |-> json(reply).value]])

cake_delete(cake_id, reply) ==
    Proxied("cake_delete", [cake_id |-> cake_id],
        Request("DELETE", LILAZUL_API_BASE \o "/cakes/" \o cake_id, NoValue),
        reply,
        [raised |-> FALSE, value |-> [ok |-> TRUE, id |-> cake_id]])

\* {"ok": True, **_get_mood("lau")}
mood_get_lau(io, lib) ==
    LET r == _get_mood(sb, mood_table, io, lib, "lau")
    IN  /\ last' = StoreInvocation("mood_get_lau", NoValue, r,
                       IF r.raised THEN NoValue
                       ELSE [ok |-> TRUE, owner |-> r.value.owner,
                             mood |-> r.value.mood,
                             updated_at |-> r.value.updated_at])
        /\ before' = crochet
        /\ UNCHANGED <<LILAZUL_API_BASE, sb, crochet, mood_table, now, in_flight>>

\* The number of mood_set_geppie calls that may wait on the store at once.
MaxInFlight == 2

\* mood_set_geppie up to the store round trip: the payload is built from the
\* clock as it reads now, and _db() raises at once on a missing handle.
mood_set_geppie(mood) ==
    IF _db(sb).raised
    THEN /\ last' = StoreInvocation("mood_set_geppie", [mood |-> mood],
                         StoreRaise("RuntimeError", mood_table, 0), NoValue)
         /\ before' = crochet
         /\ UNCHANGED <<LILAZUL_API_BASE, sb, crochet, mood_table, now, in_flight>>
    ELSE /\ BagCardinality(in_flight) < MaxInFlight
         /\ in_flight' = in_flight (+) SetToBag({_set_mood_payload(now, "geppie", mood)})
         /\ UNCHANGED <<LILAZUL_API_BASE, sb, crochet, mood_table, now, before, last>>

\* The store round trip of one waiting mood_set_geppie ends and the tool returns;
\* a second call that built the same payload keeps waiting.
mood_set_geppie_execute(payload, io) ==
    LET r == _set_mood_execute(mood_table, io, payload)
    IN  /\ BagIn(payload, in_flight)
        /\ in_flight' = in_flight (-) SetToBag({payload})
        /\ mood_table' = r.table
        /\ last' = StoreInvocation("mood_set_geppie", [mood |-> payload.mood], r, r.value)
        /\ before' = crochet
        /\ UNCHANGED <<LILAZUL_API_BASE, sb, crochet, now>>

-----------------------------------------------------------------------------
(* FASTAPI endpoints *)

root ==
    /\ last' = LocalInvocation("root", [ok |-> TRUE, msg |-> "Lilazul API + MCP " \o PurpleHeart])
    /\ before' = crochet
    /\ UNCHANGED <<LILAZUL_API_BASE, sb, crochet, mood_table, now, in_flight>>

\* not title or not status
missing_title_only(title, status) == Falsy(title)

missing_title_or_status(title, status) == Falsy(title) \/ Falsy(status)

\* The store answers (io) only when the handler reaches upsert_item.
crochet_post(payload) ==
    LET title == DictGet(payload, "title", PyNull)
        status == DictGet(payload, "status", PyNull)
    IN  IF missing_title_or_status(title, status)
        THEN /\ last' = Returned("crochet_post", payload,
                            [ok |-> FALSE, error |-> "Missing title or status"],
                            0, 0, NoRequest, NoReply)
             /\ before' = crochet
             /\ UNCHANGED <<LILAZUL_API_BASE, sb, crochet, mood_table, now, in_flight>>
        ELSE \E io \in StoreIO :
             LET r == upsert_item(sb, crochet, io, str(title), str(status))
             IN  /\ crochet' = r.table
                 /\ before' = crochet
                 /\ last' = StoreInvocation("crochet_post", payload, r, [ok |-> TRUE])
                 /\ UNCHANGED <<LILAZUL_API_BASE, sb, mood_table, now, in_flight>>

crochet_get(io) ==
    LET r == list_items(sb, crochet, io)
    IN  /\ before' = crochet
        /\ last' = StoreInvocation("crochet_get", NoValue, r,
                       [ok |-> TRUE, items |-> r.value])
        /\ UNCHANGED <<LILAZUL_API_BASE, sb, crochet, mood_table, now, in_flight>>

-----------------------------------------------------------------------------
(* Inputs, initial states and steps *)

MaxClock == 1

Titles == {"a", "7"}
Statuses == {"wip", "done"}
Moods == {"sleepy"}
ItemIds == {"42"}
BookIds == {PyNone, "bk1"}
Uuids == {"uuid-1"}
Authors == {PyNone, "Le Guin"}
Months == {PyNone, "2024-01"}
FailureCodes == {301, 404, 500}

Upstream ==
    {Response(200, TRUE), Response(200, FALSE), Timeout}
        \cup {Response(code, FALSE) : code \in FailureCodes}

TitleValues == {PyNull, PyStr(""), PyStr("a"), PyInt(7)}
StatusValues == {PyNull, PyStr(""), PyInt(0), PyStr("wip")}
\* Both keys with every pair of values, and each key absent.
Payloads ==
    [title : TitleValues, status : StatusValues]
        \cup [title : {PyStr("a")}] \cup [status : {PyStr("wip")}] \cup {<< >>}

\* The process environment at load: each variable set or not.  A deployment
\* that overrides the upstream base URL is explored without a store URL: no
\* proxied tool reads the store handle and no store tool reads the base URL.
Environments ==
    {environ \in [LILAZUL_API_BASE : {PyNone, "http://other"},
                  SUPABASE_URL : {PyNone, "https://db"},
                  SUPABASE_SERVICE_ROLE_KEY : {PyNone, "service"},
                  SUPABASE_ANON_KEY : {PyNone, "anon"}] :
        environ.LILAZUL_API_BASE # PyNone => environ.SUPABASE_URL = PyNone}

\* The instants the clock visits, in order: a winter instant with
\* microseconds, the morning summer time begins, the next day, and the first
\* minute of the next year.
Instants ==
    <<Instant(1704063630, 5), Instant(1711850400, 0),
      Instant(1711924200, 250000), Instant(1735686059, 0)>>

\* The store at load, as <<crochet table, mood table>>: the crochet table
\* holds a row with notes, and the mood table holds a row of owner "lau" or
\* none yet.
InitStores ==
    { << <<WorkItem("id1", "a", "wip", "blue yarn")>>, {} >>,
      << <<WorkItem("id1", "a", "wip", "blue yarn")>>,
         {MoodRecord("lau", "calm", "2023-12-31T09:00:00+01:00")} >> }

Init ==
    /\ \E environ \in Environments :
           /\ LILAZUL_API_BASE = load_LILAZUL_API_BASE(environ)
           /\ sb = create_sb(os_getenv(environ, "SUPABASE_URL", PyNone),
                             os_getenv(environ, "SUPABASE_SERVICE_ROLE_KEY", PyNone),
                             os_getenv(environ, "SUPABASE_ANON_KEY", PyNone))
    /\ \E store \in InitStores : crochet = store[1] /\ mood_table = store[2]
    /\ now = Instants[1]
    /\ in_flight = EmptyBag
    /\ before = crochet
    /\ last = Returned("startup", NoValue, NoValue, 0, 0, NoRequest, NoReply)

\* Time passes: the clock moves to a later instant.
Tick ==
    /\ \E k \in 1..Len(Instants) :
           /\ k <= MaxClock + 1
           /\ Later(Instants[k], now)
           /\ now' = Instants[k]
    /\ UNCHANGED <<LILAZUL_API_BASE, sb, crochet, mood_table, in_flight, before, last>>

Next ==
    \/ Tick
    \/ get_time
    \/ ping
    \/ \E item \in Titles, status \in Statuses, io \in StoreIO : crochet_add(item, status, io)
    \/ \E item \in Titles, io \in StoreIO : crochet_mark_done(item, io)
    \/ \E io \in StoreIO : crochet_list(io)
    \/ \E id \in ItemIds, reply \in Upstream : crochet_toggle(id, reply)
    \/ \E id \in ItemIds, reply \in Upstream : crochet_delete(id, reply)
    \/ \E reply \in Upstream : book_get_current(reply)
    \/ \E author \in Authors, reply \in Upstream : book_set_current("Dune", author, reply)
    \/ \E reply \in Upstream : book_list_finished(reply)
    \/ \E book_id \in BookIds, uuid \in Uuids, reply \in Upstream :
           book_add_finished("Dune", "2024-01-01", book_id, uuid, reply)
    \/ \E book_id \in BookIds \ {PyNone}, reply \in Upstream :
           book_delete_finished(book_id, reply)
    \/ \E month \in Months, reply \in Upstream : cake_get(month, reply)
    \/ \E reply \in Upstream : cake_set("2024-01", "lemon", "", "", "", reply)
    \/ \E id \in ItemIds, reply \in Upstream : cake_delete(id, reply)
    \/ \E io \in StoreIO, lib \in MaybeSingleEmpty : mood_get_lau(io, lib)
    \/ \E mood \in Moods : mood_set_geppie(mood)
    \/ \E payload \in BagToSet(in_flight), io \in StoreIO :
           mood_set_geppie_execute(payload, io)
    \/ root
    \/ \E payload \in Payloads : crochet_post(payload)
    \/ \E io \in StoreIO : crochet_get(io)

Spec == Init /\ [][Next]_vars

-----------------------------------------------------------------------------
(* Properties *)

StoreTools ==
    {"crochet_add", "crochet_mark_done", "crochet_list",
     "mood_get_lau", "mood_set_geppie", "crochet_get"}

BodyReaders ==
    {"crochet_toggle", "book_get_current", "book_set_current",
     "book_list_finished", "book_add_finished", "cake_get", "cake_set"}

ProxiedTools ==
    BodyReaders \cup {"crochet_delete", "book_delete_finished", "cake_delete"}

Tools == (StoreTools \ {"crochet_get"}) \cup ProxiedTools \cup {"ping", "get_time"}

\* The field of a proxied tool's result that carries the upstream payload.
PayloadKey(op) ==
    CASE op = "crochet_toggle" -> "response"
      [] op \in {"book_get_current", "book_set_current", "book_add_finished"} -> "book"
      [] op = "book_list_finished" -> "books"
      [] OTHER -> "data"

\* The indices of the rows of a listing that carry the title.
Titled(items, title) == {i \in DOMAIN items : items[i].title = title}

\* What crochet_list() returns in the current state, the store answering.
Listing == list_items(sb, crochet, "ok").value

\* C1: after crochet_add(t, s) has returned, crochet_list() holds exactly one
\* item titled t, and its status is s, whatever the table held before.
C1_AddThenListHasOne ==
    (last.op = "crochet_add" /\ last.outcome = "return") =>
        /\ Cardinality(Titled(Listing, last.args.item)) = 1
        /\ \A i \in Titled(Listing, last.args.item) :
               Listing[i].status = last.args.status

\* crochet_add returned on a table that already held the title with another status.
C1_Witness ==
    /\ last.op = "crochet_add"
    /\ last.outcome = "return"
    /\ \E i \in DOMAIN before :
           before[i].title = last.args.item /\ before[i].status # last.args.status
    /\ Len(crochet) = 2

\* C2: crochet_mark_done(x) on a table holding a row titled x sets that row's
\* status to "done", keeps every other row as it was, and keeps the row count.
C2_MarkDoneFrame ==
    (/\ last.op = "crochet_mark_done"
     /\ last.outcome = "return"
     /\ HasTitle(before, last.args.item)) =>
        /\ Len(crochet) = Len(before)
        /\ \A i \in DOMAIN before :
               IF before[i].title = last.args.item
               THEN crochet[i] = [before[i] EXCEPT !.status = "done"]
               ELSE crochet[i] = before[i]

\* crochet_mark_done returned on a two-row table whose other row is not done.
C2_Witness ==
    /\ last.op = "crochet_mark_done"
    /\ last.outcome = "return"
    /\ \E i \in DOMAIN before :
           before[i].title = last.args.item /\ before[i].status = "wip"
    /\ \E i \in DOMAIN crochet :
           crochet[i].title # last.args.item /\ crochet[i].status = "wip"

\* C3: a proxied tool whose upstream answers with a non-success status raises
\* HTTPStatusError carrying that status and returns nothing.
C3_UpstreamFailureRaises ==
    (/\ last.op \in ProxiedTools
     /\ last.reply.kind = "response"
     /\ last.reply.status_code \notin 200..299) =>
        /\ last.outcome = "raise"
        /\ last.exc = "HTTPStatusError"
        /\ last.http_status = last.reply.status_code
        /\ last.result = NoValue

\* crochet_toggle met a 404 and raised.
C3_Witness ==
    /\ last.op = "crochet_toggle"
    /\ last.reply.kind = "response"
    /\ last.reply.status_code = 404
    /\ last.outcome = "raise"

\* A payload field that is missing or empty.
MissingOrEmpty(payload, k) ==
    k \notin DOMAIN payload \/ payload[k] = PyNull \/ payload[k] = PyStr("")

\* C4: POST /crochet without a title or without a status returns the
\* "Missing title or status" mapping, leaves the table alone and does not
\* contact the store, configured or not.
C4_PostMissingField ==
    (/\ last.op = "crochet_post"
     /\ (MissingOrEmpty(last.args, "title") \/ MissingOrEmpty(last.args, "status"))) =>
        /\ last.outcome = "return"
        /\ last.result = [ok |-> FALSE, error |-> "Missing title or status"]
        /\ last.store_calls = 0
        /\ crochet = before

\* POST /crochet with a title and no status, the store handle being None.
C4_Witness ==
    /\ last.op = "crochet_post"
    /\ sb = PyNone
    /\ "title" \in DOMAIN last.args
    /\ last.args.title = PyStr("a")
    /\ "status" \notin DOMAIN last.args
    /\ last.result = [ok |-> FALSE, error |-> "Missing title or status"]

\* C5: every tool that returns, returns a mapping with a boolean ok.
C5_EveryToolReturnsOk ==
    (last.op \in Tools /\ last.outcome = "return") =>
        HasOk(last.result)

\* What mood_get_lau() reads from a mood table, the store answering.
LauReading(tbl) == _get_mood("client", tbl, "ok", "data is None", "lau").value

\* C6: no step changes the row of owner "lau" or what mood_get_lau reads;
\* rows written are rows of owner "geppie", and mood_get_lau writes nothing.
C6_LauIsolated ==
    [][/\ MoodSelect(mood_table', "lau") = MoodSelect(mood_table, "lau")
       /\ LauReading(mood_table') = LauReading(mood_table)
       /\ \A r \in mood_table' \ mood_table : r.owner = "geppie"
       /\ (last'.op = "mood_get_lau" => mood_table' = mood_table)]_vars

\* mood_set_geppie returned on a table that holds a row of owner "lau": its
\* write landed after the clock had moved on, while another call still waits
\* on the store.
C6_Witness ==
    /\ last.op = "mood_set_geppie"
    /\ last.outcome = "return"
    /\ MoodSelect(mood_table, "lau") # {}
    /\ \E r \in mood_table :
           /\ r.owner = "geppie"
           /\ r.mood = last.args.mood
           /\ r.updated_at = last.result.updated_at
           /\ r.updated_at # now_iso(now)
    /\ BagCardinality(in_flight) > 0

\* C7: a proxied tool that reads the body, answered 2xx with a body that does
\* not parse, returns ok: true with None in place of the upstream payload.
C7_UnparsableBodyIsNone ==
    (/\ last.op \in BodyReaders
     /\ last.reply.kind = "response"
     /\ last.reply.status_code \in 200..299
     /\ ~last.reply.parses) =>
        /\ last.outcome = "return"
        /\ last.result.ok = TRUE
        /\ last.result[PayloadKey(last.op)] = PyNone

\* A payload field that is present and true in Python's sense.
Present(payload, k) ==
    /\ k \in DOMAIN payload
    /\ payload[k] \notin {PyNull, PyStr(""), PyInt(0)}

\* C8: with the store handle None, every store-dependent operation raises
\* RuntimeError before any store round trip and writes nothing, while ping,
\* get_time and the proxied tools behave as their inputs alone dictate.
C8_StoreUnavailable ==
    (sb = PyNone) =>
        /\ ((\/ last.op \in StoreTools
             \/ (/\ last.op = "crochet_post"
                 /\ Present(last.args, "title")
                 /\ Present(last.args, "status"))) =>
                (/\ last.outcome = "raise"
                 /\ last.exc = "RuntimeError"
                 /\ last.result = NoValue
                 /\ last.store_calls = 0))
        /\ last.store_calls = 0
        /\ <<crochet, mood_table>> \in InitStores
        /\ in_flight = EmptyBag
        /\ (last.op \in {"ping", "get_time"} => last.outcome = "return")
        /\ ((/\ last.op \in ProxiedTools
             /\ last.reply.kind = "response"
             /\ last.reply.status_code = 200
             /\ last.reply.parses) => last.outcome = "return")
        /\ (last.op \in ProxiedTools =>
               last.exc \in {"", "HTTPStatusError", "JSONDecodeError", "TimeoutException"})

\* mood_set_geppie raised RuntimeError on a None handle.
C8_Witness ==
    /\ sb = PyNone
    /\ last.op = "mood_set_geppie"
    /\ last.outcome = "raise"
    /\ last.exc = "RuntimeError"

\* C9: crochet_mark_done(x) on a table with no row titled x returns ok: true
\* with id None, title x and status "done", and leaves the table as it was.
C9_MarkDoneNoRow ==
    (/\ last.op = "crochet_mark_done"
     /\ last.outcome = "return"
     /\ ~HasTitle(before, last.args.item)) =>
        /\ last.result = [ok |-> TRUE, id |-> PyNone,
                          title |-> last.args.item, status |-> "done"]
        /\ crochet = before
        /\ ~HasTitle(crochet, last.args.item)

\* crochet_mark_done returned on a non-empty table without the title.
C9_Witness ==
    /\ last.op = "crochet_mark_done"
    /\ last.outcome = "return"
    /\ before # << >>
    /\ ~HasTitle(before, last.args.item)

\* C10: a proxied tool sends exactly one upstream request, answered well or
\* not, and no store query; every other operation sends no upstream request
\* and at most one store query.
C10_OneRoundTrip ==
    /\ (last.op \in ProxiedTools => (last.http_calls = 1 /\ last.store_calls = 0))
    /\ (last.op \notin ProxiedTools => (last.http_calls = 0 /\ last.store_calls <= 1))

\* crochet_toggle met a 500, raised, and had sent one request.
C10_Witness ==
    /\ last.op = "crochet_toggle"
    /\ last.reply.kind = "response"
    /\ last.reply.status_code = 500
    /\ last.outcome = "raise"
    /\ last.http_calls = 1

====
